---- MODULE Spec2Model ----
(***************************************************************************)
(* Garefowl AI chatbot for GNOME: the orchestration loop of the panel      *)
(* extension (Garefowl class), the provider adapters and their transport   *)
(* (lib/llmProviders.js) and the two tool executors.                       *)
(*                                                                         *)
(* Texts are sequences of tokens: the JavaScript string is the             *)
(* concatenation of the tokens.  Every prefix or marker the code tests     *)
(* ("Thinking ", "</think>", whitespace) is a token of its own, so that    *)
(* startsWith, indexOf and trim are computed on the tokens as the code     *)
(* computes them on the characters.                                        *)
(***************************************************************************)
EXTENDS Integers, Sequences, FiniteSets, TLC

\* ------------------------------------------------------------------ bounds
\* A user input is taken up only while the history is shorter than this.
MaxHistory == 2
\* Ticks of the one-second thinking timer that are told apart.
MaxElapsed == 1
\* Most lines of a subtitle file.
MaxLines == 3
\* Requests sent and poll rounds counted in the polling variant of the loop.
MaxRequests == 3
MaxPolls == 3

\* ------------------------------------------------------- program constants
MaxToolCallDepth_Mut == 3 + 1
_maxToolCallDepth == 3

USER == "user"
ASSISTANT == "assistant"
MODEL == "model"

ANTHROPIC == "anthropic"
OPENAI == "openai"
GEMINI == "gemini"
OPENROUTER == "openrouter"
OLLAMA == "ollama"
GROQ == "groq"

LLMProviders == {ANTHROPIC, OPENAI, GEMINI, OPENROUTER, OLLAMA, GROQ}

WEB_SEARCH_TOOL == "web_search"
YOUTUBE_SUMMARY_TOOL == "youtube_summary"

\* UI.NEW_CONVERSATION_TEXT
NEW_CONVERSATION_TEXT == <<"Create a new conversation (Deletes current)">>

\* ------------------------------------------------------------------- texts
THINKING == "Thinking "
THINK_END == "</think>"
Whitespace == {" ", "\n", "\n\n"}

\* String.prototype.startsWith for a one-token prefix.
StartsWith(text, prefix) ==
    Len(text) >= 1 /\ text[1] = prefix

RECURSIVE TrimStart(_)
TrimStart(text) ==
    IF text # <<>> /\ text[1] \in Whitespace THEN TrimStart(Tail(text)) ELSE text

RECURSIVE TrimEnd(_)
TrimEnd(text) ==
    IF text # <<>> /\ text[Len(text)] \in Whitespace
    THEN TrimEnd(SubSeq(text, 1, Len(text) - 1))
    ELSE text

\* String.prototype.trim
Trim(text) == TrimEnd(TrimStart(text))

\* String.prototype.indexOf for a one-token needle: 0 when absent, else the
\* position of the first occurrence.
IndexOf(text, needle) ==
    IF \E i \in 1..Len(text) : text[i] = needle
    THEN CHOOSE i \in 1..Len(text) :
             text[i] = needle /\ \A j \in 1..(i - 1) : text[j] # needle
    ELSE 0

\* The decimal digits of a natural number, for `Thinking ${elapsed}s`.
Digit(d) ==
    CASE d = 0 -> "0" [] d = 1 -> "1" [] d = 2 -> "2" [] d = 3 -> "3"
      [] d = 4 -> "4" [] d = 5 -> "5" [] d = 6 -> "6" [] d = 7 -> "7"
      [] d = 8 -> "8" [] OTHER -> "9"

RECURSIVE Digits(_)
Digits(n) ==
    IF n < 10 THEN <<Digit(n)>> ELSE Digits(n \div 10) \o <<Digit(n % 10)>>

\* `Thinking ${elapsed}s`
ThinkingText(elapsed) == <<THINKING>> \o Digits(elapsed) \o <<"s">>

\* ------------------------------------------------------------ JSON values
\* A JSON value that is null (or absent: undefined) or a string.
JNull == [t |-> "null", s |-> <<>>]
JStr(s) == [t |-> "str", s |-> s]

\* JavaScript truthiness of such a value: null, undefined and "" are falsy.
Truthy(v) == v.t = "str" /\ v.s # <<>>

\* --------------------------------------------- provider responses (wire)
\* A tool call's arguments as the backend encodes them.  enc: "object" (a
\* JSON object), "string" (a string holding JSON text), "null" (JSON null)
\* or "absent" (no such field).  val names the logical value: "valid" (an
\* object with a usable query / video_url), "invalid" (an object whose
\* video_url matches no known URL shape), "no_key" (an object without the
\* required key), "null", or "garbage" (text that is not JSON).
Arg(enc, val) == [enc |-> enc, val |-> val]

\* toolCall.input as the loop receives it.
InObject(val) == [val |-> val, kind |-> "object"]
InNull == [val |-> "null", kind |-> "null"]
Thrown == [val |-> "null", kind |-> "throw"]

\* JSON.parse(tc.function.arguments).  A non-string operand is converted to
\* a string first: an object gives "[object Object]" and undefined gives
\* "undefined", neither of which is JSON; null gives "null", which is.
JsonParse(a) ==
    CASE a.enc = "string" /\ a.val = "garbage" -> Thrown
      [] a.enc = "string" /\ a.val = "null" -> InNull
      [] a.enc = "string" -> InObject(a.val)
      [] a.enc = "null" -> InNull
      [] OTHER -> Thrown

\* The arguments handed on without parsing.
AsIs(a) ==
    CASE a.enc = "object" -> InObject(a.val)
      [] a.enc = "string" -> [val |-> "null", kind |-> "string"]
      [] OTHER -> InNull

\* A parsed response body.  kind: "object", "string" (the body is a JSON
\* string) or "null".  For an object, env tells whether the envelope the
\* adapter reads is present (content[] / choices[0].message /
\* candidates[0].content.parts / message), text is the value of its text
\* field and calls lists the tool invocations it carries, in order.
Response(kind, env, text, calls) ==
    [text |-> text, kind |-> kind, env |-> env, calls |-> calls]

\* What _extractToolCalls produces: a list, null, or an exception.
TcList(calls) == [kind |-> "list", calls |-> calls]
TcNull == [kind |-> "null", calls |-> <<>>]
TcThrow == [kind |-> "throw", calls |-> <<>>]

ToolCall(name, input) == [name |-> name, input |-> input]

\* What _extractResponseText produces: a value or an exception.
TxValue(v) == [v |-> v, thrown |-> FALSE]
TxThrow == [v |-> JNull, thrown |-> TRUE]

\* ------------------------------------------------------ provider adapters
\* tool_calls.map(tc => ({..., input: JSON.parse(tc.function.arguments)}))
MapJsonParse(calls) ==
    IF \E i \in 1..Len(calls) : JsonParse(calls[i].arguments) = Thrown
    THEN TcThrow
    ELSE TcList([i \in 1..Len(calls) |->
                    ToolCall(calls[i].name, JsonParse(calls[i].arguments))])

AnthropicProvider_extractToolCalls(response) ==
    CASE response.kind = "null" -> TcThrow
      [] response.kind = "string" -> TcNull
      [] response.env /\ response.calls # <<>> ->
            TcList(<<ToolCall(response.calls[1].name, AsIs(response.calls[1].arguments))>>)
      [] OTHER -> TcNull

AnthropicProvider_extractResponseText(response) ==
    IF response.env /\ Truthy(response.text)
    THEN TxValue(response.text)
    ELSE TxValue(JStr(<<>>))

OpenAIProvider_extractToolCalls(response) ==
    CASE response.kind = "null" -> TcThrow
      [] response.kind = "string" -> TcNull
      [] response.env /\ response.calls # <<>> -> MapJsonParse(response.calls)
      [] OTHER -> TcNull

OpenAIProvider_extractResponseText(response) ==
    IF response.env THEN TxValue(response.text) ELSE TxThrow

GeminiProvider_extractToolCalls(response) ==
    CASE response.kind = "null" -> TcThrow
      [] response.kind = "string" -> TcNull
      [] response.env /\ response.calls # <<>> ->
            TcList(<<ToolCall(response.calls[1].name, AsIs(response.calls[1].arguments))>>)
      [] OTHER -> TcNull

GeminiProvider_extractResponseText(response) ==
    IF response.env THEN TxValue(response.text) ELSE TxThrow

OllamaProvider_extractToolCalls(response) ==
    CASE response.kind = "null" -> TcThrow
      [] response.kind = "string" -> TcNull
      [] response.env /\ response.calls # <<>> ->
            IF \E i \in 1..Len(response.calls) :
                   /\ response.calls[i].arguments.enc = "string"
                   /\ JsonParse(response.calls[i].arguments) = Thrown
            THEN TcThrow
            ELSE TcList([i \in 1..Len(response.calls) |->
                     ToolCall(response.calls[i].name,
                              IF response.calls[i].arguments.enc = "string"
                              THEN JsonParse(response.calls[i].arguments)
                              ELSE AsIs(response.calls[i].arguments))])
      [] OTHER -> TcNull

OllamaProvider_extractResponseText(response) ==
    IF response.env /\ response.text.t = "str"
    THEN LET content == response.text.s
             thinkEndIndex == IndexOf(content, THINK_END)
             afterThink == Trim(SubSeq(content, thinkEndIndex + 1, Len(content)))
         IN  IF thinkEndIndex # 0 /\ afterThink # <<>>
             THEN TxValue(JStr(afterThink))
             ELSE TxValue(JStr(content))
    ELSE TxValue(JStr(<<>>))

\* LLMProviderFactory.createProvider, then the adapter's method.
\* OpenRouter and Groq repeat the OpenAI code; an unknown kind gets the
\* Anthropic adapter.
_extractToolCalls(provider, response) ==
    CASE provider \in {OPENAI, OPENROUTER, GROQ} -> OpenAIProvider_extractToolCalls(response)
      [] provider = GEMINI -> GeminiProvider_extractToolCalls(response)
      [] provider = OLLAMA -> OllamaProvider_extractToolCalls(response)
      [] OTHER -> AnthropicProvider_extractToolCalls(response)

_extractResponseText(provider, response) ==
    CASE provider \in {OPENAI, OPENROUTER, GROQ} -> OpenAIProvider_extractResponseText(response)
      [] provider = GEMINI -> GeminiProvider_extractResponseText(response)
      [] provider = OLLAMA -> OllamaProvider_extractResponseText(response)
      [] OTHER -> AnthropicProvider_extractResponseText(response)

\* ---------------------------------------------------- request construction
\* Model names: one that OllamaProvider.supportsTools accepts, one it does not.
TOOL_MODEL == "llama3.1"
PLAIN_MODEL == "gemma2"
Models == {TOOL_MODEL, PLAIN_MODEL}

\* The names OllamaProvider.supportsTools looks for in the model name.
ToolModels == {"llama3.1", "llama3.2", "llama-3.1", "llama-3.2", "mistral",
               "mixtral", "ministral", "qwen2.5", "qwen-2.5", "command-r",
               "command-r-plus", "deepseek-r1"}

\* supportsTools(): true for every adapter but Ollama, which asks the model.
supportsTools(provider, model) ==
    IF provider = OLLAMA THEN model \in ToolModels ELSE TRUE

SYSTEM == "system"
SYSTEM_PROMPT == <<"You have web_search and youtube_summary tools. Use them when appropriate. When messages contain [WEB SEARCH RESULTS] or [YOUTUBE VIDEO TRANSCRIPT], answer ONLY using that data.">>
GEMINI_SYSTEM_PREFIX == <<"[SYSTEM: You have web_search and youtube_summary tools. Use them when appropriate. When messages contain [WEB SEARCH RESULTS] or [YOUTUBE VIDEO TRANSCRIPT], answer ONLY using that data.]", "\n\n">>

\* One entry of messages / contents.
Message(role, content) == [content |-> content, role |-> role]

\* A request body: the message list (messages, or contents for Gemini),
\* whether a top-level system field is set and whether tools are declared.
Body(messages, system, tools) ==
    [messages |-> messages, system |-> system, tools |-> tools]

\* history.map(msg => ({role: msg.role === USER ? USER : other, content}))
MapRoles_Mut(history, other) ==
    [i \in 1..Len(history) |-> Message(other, history[i].content)]

MapRoles(history, other) ==
    [i \in 1..Len(history) |->
        Message(IF history[i].role = USER THEN USER ELSE other, history[i].content)]

\* messages.unshift({role: "system", content: ...}) when tools are offered.
WithSystemMessage_Mut(messages, tools) == messages

WithSystemMessage(messages, tools) ==
    IF tools THEN <<Message(SYSTEM, SYSTEM_PROMPT)>> \o messages ELSE messages

AnthropicProvider_generateRequestBody(webSearch, model, history) ==
    LET tools == webSearch /\ supportsTools(ANTHROPIC, model)
    IN  Body(MapRoles(history, ASSISTANT), tools, tools)

OpenAIProvider_generateRequestBody(webSearch, model, history) ==
    LET tools == webSearch /\ supportsTools(OPENAI, model)
    IN  Body(WithSystemMessage(MapRoles(history, ASSISTANT), tools), FALSE, tools)

GeminiProvider_generateRequestBody(webSearch, model, history) ==
    LET tools == webSearch /\ supportsTools(GEMINI, model)
        contents == MapRoles(history, MODEL)
    IN  Body(IF tools /\ Len(contents) > 0
             THEN [contents EXCEPT ![1].content = GEMINI_SYSTEM_PREFIX \o @]
             ELSE contents,
             FALSE, tools)

\* const messages = [...history]: the turns as they are, roles not mapped.
OpenRouterProvider_generateRequestBody(webSearch, model, history) ==
    LET tools == webSearch /\ supportsTools(OPENROUTER, model)
    IN  Body(WithSystemMessage([i \in 1..Len(history) |->
                                   Message(history[i].role, history[i].content)], tools),
             FALSE, tools)

GroqProvider_generateRequestBody(webSearch, model, history) ==
    LET tools == webSearch /\ supportsTools(GROQ, model)
    IN  Body(WithSystemMessage(MapRoles(history, ASSISTANT), tools), FALSE, tools)

\* Turns with another role are dropped; a dummy empty user message is added
\* when the list is empty or does not end with a user message.
OllamaProvider_generateRequestBody(webSearch, model, history) ==
    LET tools == webSearch /\ supportsTools(OLLAMA, model)
        kept == SelectSeq(history, LAMBDA msg : msg.role \in {USER, ASSISTANT})
        messages == WithSystemMessage(MapRoles(kept, ASSISTANT), tools)
    IN  Body(IF Len(messages) = 0 \/ messages[Len(messages)].role # USER
             THEN Append(messages, Message(USER, <<>>))
             ELSE messages,
             FALSE, tools)

\* LLMProviderFactory.createProvider, then the adapter's method.
_generateRequestBody(provider, webSearch, model, history) ==
    CASE provider = OPENAI -> OpenAIProvider_generateRequestBody(webSearch, model, history)
      [] provider = GEMINI -> GeminiProvider_generateRequestBody(webSearch, model, history)
      [] provider = OPENROUTER -> OpenRouterProvider_generateRequestBody(webSearch, model, history)
      [] provider = OLLAMA -> OllamaProvider_generateRequestBody(webSearch, model, history)
      [] provider = GROQ -> GroqProvider_generateRequestBody(webSearch, model, history)
      [] OTHER -> AnthropicProvider_generateRequestBody(webSearch, model, history)

\* The history array after _generateRequestBody has run on it.  Every
\* adapter builds new arrays and new message objects (map, filter, spread)
\* and writes only to those (unshift, push, contents[0].parts[0].text).
HistoryAfterRequestBody_Mut(provider, webSearch, history) ==
    IF provider = GEMINI /\ webSearch /\ Len(history) > 0
    THEN [history EXCEPT ![1].content = GEMINI_SYSTEM_PREFIX \o @]
    ELSE history

HistoryAfterRequestBody(provider, webSearch, history) ==
    history

\* ------------------------------------------------------------ tool results
\* new Date().toLocaleString(...): one value stands for the current time.
CurrentDate == "Thursday, November 5, 2026 at 09:00 AM UTC"

\* Reading toolCall.input.query / toolCall.input.video_url: "undefined" when
\* the object lacks the key or the input is a string.  (Reading it from a
\* null or undefined input throws; the callers check that first.)
Property(input) ==
    IF input.kind = "object" /\ input.val \in {"valid", "invalid"}
    THEN input.val
    ELSE "undefined"

\* The query text: `${query}` and encodeURIComponent(query) both turn
\* undefined into the text "undefined".
QueryText(q) ==
    CASE q = "valid" -> "weather today"
      [] q = "invalid" -> "not a video url"
      [] OTHER -> "undefined"

\* SearXNGSearchClient._parseResults: the first five entries of data.results
\* that have a title and a url; none when results is missing or not an array.
\* data.results is modelled as a sequence, or <<>> when missing; the snippet
\* of an entry is its content field.
_parseResults(results) ==
    LET top == SubSeq(results, 1, IF Len(results) < 5 THEN Len(results) ELSE 5)
    IN  SelectSeq(top, LAMBDA r : r.title # "" /\ r.url # "")

RECURSIVE FormatItems(_, _)
FormatItems(results, index) ==
    IF index > Len(results) THEN <<>>
    ELSE Digits(index)
         \o <<". ", results[index].title, "\n",
              "   Source: ", results[index].url, "\n">>
         \o (IF results[index].content # ""
             THEN <<"   ", results[index].content, "\n">> ELSE <<>>)
         \o <<"\n">> \o FormatItems(results, index + 1)

NO_RESULTS == "No results found. Please answer based on your general knowledge and inform the user that you don't have access to current real-time data for this query."

\* SearXNGSearchClient._formatResults
_formatResults_Mut(results, query) ==
    <<"[WEB SEARCH RESULTS", " - Current time: ", CurrentDate, "]", "\n\n",
      "Search query: \"", query, "\"", "\n\n">>
    \o FormatItems(results, 1)
    \o <<"[END SEARCH RESULTS]", "\n\n",
         "Please use the above information to answer the user's question.">>

_formatResults(results, query) ==
    <<"[WEB SEARCH RESULTS", " - Current time: ", CurrentDate, "]", "\n\n",
      "Search query: \"", query, "\"", "\n\n">>
    \o (IF Len(results) = 0
        THEN <<NO_RESULTS, "\n\n", "[END SEARCH RESULTS]">>
        ELSE FormatItems(results, 1)
             \o <<"[END SEARCH RESULTS]", "\n\n",
                  "Please use the above information to answer the user's question.">>)

\* The body of the search response once parsed: JSON null or an object whose
\* results field is missing, not an array, or a list of entries.
SearchBody(kind, results, items) ==
    [kind |-> kind, results |-> results, items |-> items]

\* SearXNGSearchClient.search, the completion of its request: the error or
\* the text handed to the callback.  Reading data.results of a null body
\* throws, and the catch reports the exception.  _parseResults takes
\* data.results: the list, or nothing when the field is missing or not an
\* array.
SearchResult(error, results) == [results |-> results, error |-> error]

searchCompletion(query, outcome, data) ==
    CASE outcome # "ok" -> SearchResult(outcome, <<>>)
      [] data.kind = "null" -> SearchResult("exception", <<>>)
      [] OTHER -> SearchResult("none", _formatResults(_parseResults(IF data.results = "list" THEN data.items
                                                             ELSE <<>>),
                                               query))

\* The content of the turn injected after a web search.
WebSearchTurnContent_Mut(results) ==
    <<"Search done. Please answer the original question.">>

WebSearchTurnContent(results) ==
    <<"[WEB SEARCH RESULTS", " - Current time: ", CurrentDate, "]", "\n\n">>
    \o results
    \o <<"\n\n", "[END SEARCH RESULTS]", "\n\n",
         "Using ONLY the search results above (which are current as of ", CurrentDate,
         "), please answer the original question. Do not use your training data. If the search results don't contain the answer, say so.">>

\* YouTubeTranscriptFetcher.formatTranscript, given the id extractVideoId
\* finds in the URL.
formatTranscript(videoId, transcript) ==
    <<"[YOUTUBE VIDEO TRANSCRIPT]", "\n\n",
      "Video: https://www.youtube.com/watch?v=", videoId, "\n\n", "Transcript:", "\n">>
    \o transcript
    \o <<"\n\n", "[END TRANSCRIPT]", "\n\n",
         "Please summarize the above video transcript.">>

\* ------------------------------------------------------- subtitle files
\* vttContent.split('\n'): the content of a subtitle file is a sequence of
\* lines, a line a sequence of tokens.
VTT_HEADER == "WEBVTT"
CUE_ARROW == "-->"

\* line && !line.includes('-->') && !line.startsWith('WEBVTT') && !/^\d+$/.test(line)
IsTextLine(line) ==
    /\ line # <<>>
    /\ ~(\E i \in 1..Len(line) : line[i] = CUE_ARROW)
    /\ ~StartsWith(line, VTT_HEADER)
    /\ ~(\A i \in 1..Len(line) : line[i] \in {Digit(d) : d \in 0..9})

\* line.replace(/<[^>]*>/g, '')
RemoveTags(line) == SelectSeq(line, LAMBDA tok : tok \notin {"<c>", "</c>"})

\* The loop of _parseVTT over the lines left, textLines collected so far;
\* a cleaned line is kept unless textLines.includes(cleaned).
RECURSIVE ParseLines(_, _)
ParseLines(lines, textLines) ==
    IF lines = <<>>
    THEN textLines
    ELSE LET line == Trim(Head(lines))
             cleaned == Trim(RemoveTags(line))
         IN  ParseLines(Tail(lines),
                        IF /\ IsTextLine(line) /\ cleaned # <<>>
                           /\ ~(\E i \in 1..Len(textLines) : textLines[i] = cleaned)
                        THEN Append(textLines, cleaned)
                        ELSE textLines)

\* textLines.join(' ')
RECURSIVE Join(_)
Join(textLines) ==
    IF textLines = <<>> THEN <<>>
    ELSE IF Len(textLines) = 1 THEN textLines[1]
    ELSE textLines[1] \o <<" ">> \o Join(Tail(textLines))

_parseVTT(vttContent) == Join(ParseLines(vttContent, <<>>))

\* fetchTranscript, the completion of the yt-dlp subprocess.  run tells what
\* happened: successful (exit status 0), written (the subtitle file
\* /tmp/<id>.en.vtt exists), load (load_contents gives the content, returns
\* false or throws), vtt (the content) and delete (file.delete works or
\* throws).  The result is the callback's error or transcript and whether
\* the subtitle file is still there afterwards.
FetchResult(error, transcript, file) ==
    [error |-> error, transcript |-> transcript, file |-> file]

subprocessFinished(run) ==
    CASE ~run.successful -> FetchResult("ytdlp_failed", <<>>, run.written)
      [] ~run.written -> FetchResult("no_subtitles", <<>>, FALSE)
      [] run.load = "false" -> FetchResult("read_failed", <<>>, TRUE)
      [] run.load = "throws" -> FetchResult("exception", <<>>, TRUE)
      [] OTHER -> FetchResult("none", _parseVTT(run.vtt), run.delete = "throws")

\* -------------------------------------------------------------- the loop
VARIABLES
    _history,          \* this._history: sequence of [role, content]
    settingsHistory,   \* the history kept by the settings store
    _chatInput,        \* [reactive, text]
    _thinkingTimer,    \* TRUE while the one-second timer source is installed
    elapsed,           \* whole seconds shown by the thinking timer
    _toolCallDepth,
    inflight,          \* provider requests sent and not yet completed
    toolsInFlight,     \* tool executions started and not yet completed
    _chatDisplay,      \* the last child of the chat box (NoChild when empty)
    destroyed,         \* destroy() has run
    llmProvider,       \* setting: the provider kind
    enableWebSearch,   \* setting: the web-search toggle
    started,           \* tool executions started since the last user input
    turns,             \* tool-result turns appended since the last user input
    event,             \* the handler that ran last, and what it was given
    probe              \* the adapter or transport function applied last, with its result

vars == <<_history, settingsHistory, _chatInput, _thinkingTimer, elapsed,
          _toolCallDepth, inflight, toolsInFlight, _chatDisplay, destroyed,
          llmProvider, enableWebSearch, started, turns, event, probe>>

Turn(role, content) == [content |-> content, role |-> role]

\* The mutable state of the Garefowl object, as one record.
Self ==
    [text |-> _chatInput.text,
     elapsed |-> elapsed,
     tools |-> toolsInFlight,
     history |-> _history,
     inflight |-> inflight,
     started |-> started,
     turns |-> turns,
     stored |-> settingsHistory,
     reactive |-> _chatInput.reactive,
     timer |-> _thinkingTimer,
     depth |-> _toolCallDepth,
     display |-> _chatDisplay]

\* The state a handler leaves behind becomes the next state.
Become(s) ==
    /\ _history' = s.history
    /\ settingsHistory' = s.stored
    /\ _chatInput' = [text |-> s.text, reactive |-> s.reactive]
    /\ _thinkingTimer' = s.timer
    /\ elapsed' = s.elapsed
    /\ _toolCallDepth' = s.depth
    /\ inflight' = s.inflight
    /\ toolsInFlight' = s.tools
    /\ _chatDisplay' = s.display
    /\ started' = s.started
    /\ turns' = s.turns

\* A handler's result: the state it leaves and whether an exception escaped.
Ok(s) == [s |-> s, thrown |-> FALSE]
Throw(s) == [s |-> s, thrown |-> TRUE]

RemoveAt(seq, i) == SubSeq(seq, 1, i - 1) \o SubSeq(seq, i + 1, Len(seq))

\* The chat box is followed through its last child: what was displayed last.
Child(kind, role, text, settingsButton) ==
    [text |-> text, kind |-> kind, role |-> role, settingsButton |-> settingsButton]

NoChild == Child("none", "none", <<>>, FALSE)

\* ChatMessageDisplay.displayMessage: one more message box.
displayMessage(s, role, text) ==
    [s EXCEPT !.display = Child("message", role, text, FALSE)]

\* ChatMessageDisplay.displayError: the message, then the settings button
\* when asked for.
displayError(s, errorMessage, showSettingsButton) ==
    [s EXCEPT !.display = Child("error", ASSISTANT, errorMessage, showSettingsButton)]

\* ChatMessageDisplay.loadHistory: clear, then one message per turn.
loadHistory(history) ==
    IF history = <<>>
    THEN NoChild
    ELSE Child("message", history[Len(history)].role, history[Len(history)].content, FALSE)

_startThinkingTimer(s) ==
    [s EXCEPT !.text = ThinkingText(0), !.timer = TRUE, !.elapsed = 0]

_stopThinkingTimer(s) ==
    [s EXCEPT !.timer = FALSE, !.elapsed = 0]

\* set_reactive(true); set_text(""); _focusInputBox()
InputReady(s) ==
    [s EXCEPT !.reactive = TRUE, !.text = <<>>]

\* SettingsManager.setHistory(this._history)
setHistory(s) ==
    [s EXCEPT !.stored = s.history]

\* _sendToLLM: build the adapter from the settings and call sendRequest,
\* which builds the request body from the history at once.  The request
\* also remembers the stored history of the moment it was sent.
_sendToLLM(s, provider, webSearch) ==
    [s EXCEPT !.inflight = Append(@, [provider |-> provider,
                                      history |-> s.history,
                                      enableWebSearch |-> webSearch,
                                      stored |-> s.stored]),
              !.history = HistoryAfterRequestBody(provider, webSearch, @)]

\* ------------------------------------------------------ the loop's texts
NO_RESPONSE == <<"[No response from LLM - this may be a parsing error]">>
SEARCH_LIMIT == <<"Web search limit reached. Please try rephrasing your question.">>
CANNOT_RESTART == <<"You can't create a new conversation while I am thinking">>

Searching(query) == <<"Searching the web for: \"", query, "\"...">>
UnknownTool(name) == <<"Unknown tool requested: ", name>>
TranscriptFailed(message) == <<"YouTube transcript fetch failed: ", message>>

\* The message of the Error each failure shape of sendRequest builds.
TransportErrors == {"network_error", "no_data", "http_error", "parse_error"}

ErrorMessage(kind) ==
    CASE kind = "network_error" -> "Network error: "
      [] kind = "no_data" -> "No response data received"
      [] kind = "http_error" -> "HTTP error "
      [] kind = "parse_error" -> "Failed to parse JSON: "
      [] OTHER -> "Exception in response handler: "

\* error.toString()
ErrorToString(kind) == <<"Error: ", ErrorMessage(kind)>>

\* _getEndpointUrl() of each adapter.
_getEndpointUrl(provider, model, apiKey) ==
    CASE provider = OPENAI -> <<"https://api.openai.com/v1/chat/completions">>
      [] provider = GEMINI ->
            <<"https://generativelanguage.googleapis.com/v1beta/models/", model,
              ":generateContent?key=", apiKey>>
      [] provider = OPENROUTER -> <<"https://openrouter.ai/api/v1/chat/completions">>
      [] provider = OLLAMA -> <<"http://127.0.0.1:11434/api/chat">>
      [] provider = GROQ -> <<"https://api.groq.com/openai/v1/chat/completions">>
      [] OTHER -> <<"https://api.anthropic.com/v1/messages">>

\* The text of the Error sendRequest hands to the callback: errMsg, built
\* from the failure, the URL and, for three of the shapes, the request body
\* (the body stands for its JSON text) and the raw response.
errMsg(kind, url, requestBody) ==
    CASE kind = "network_error" ->
            <<ErrorMessage(kind), "Socket I/O timed out", "\nURL: ">> \o url
      [] kind = "no_data" ->
            <<ErrorMessage(kind), "\nURL: ">> \o url
      [] kind = "http_error" ->
            <<ErrorMessage(kind), "401", "\nURL: ">> \o url
            \o <<"\nRequest: ", requestBody, "\nResponse: ", "{\"error\":\"unauthorized\"}">>
      [] kind = "parse_error" ->
            <<ErrorMessage(kind), "JSON.parse: unexpected character", "\nURL: ">> \o url
            \o <<"\nRequest: ", requestBody, "\nRaw: ", "<html>">>
      [] OTHER ->
            <<ErrorMessage(kind), "callback failed", "\nURL: ">> \o url
            \o <<"\nRequest: ", requestBody>>

\* LLMProvider.sendRequest with any callback: what the callback is called
\* with, in order ("response" for the parsed body, else the error text), and
\* whether an exception leaves the completion handler.  throws is the set of
\* invocations (first, second) in which the callback throws.  An exception
\* of callback(null, json) is caught and logged; an exception of an error
\* callback is caught by the outer catch, which calls the callback again.
sendRequestCallbacks_Mut(outcome, throws, url, requestBody) ==
    IF outcome = "ok"
    THEN [calls |-> <<"response">>, escaped |-> FALSE]
    ELSE [calls |-> <<errMsg(outcome, url, requestBody)>>, escaped |-> 1 \in throws]

sendRequestCallbacks(outcome, throws, url, requestBody) ==
    IF outcome = "ok"
    THEN [calls |-> <<"response">>, escaped |-> FALSE]
    ELSE IF 1 \in throws
         THEN [calls |-> <<errMsg(outcome, url, requestBody),
                           errMsg("handler_exception", url, requestBody)>>,
               escaped |-> 2 \in throws]
         ELSE [calls |-> <<errMsg(outcome, url, requestBody)>>, escaped |-> FALSE]

\* ---------------------------------------------------- the loop's decisions
\* _handleUserInput goes on only with a text that is not empty and does not
\* start with 'Thinking '.
UserInputAccepted_Mut(input) ==
    input # <<>>

UserInputAccepted(input) ==
    input # <<>> /\ ~StartsWith(input, THINKING)

\* _handleNewConversation clears unless the input shows the thinking text.
NewConversationAllowed_Mut(inputText) == TRUE

NewConversationAllowed(inputText) ==
    inputText = NEW_CONVERSATION_TEXT \/ ~StartsWith(inputText, THINKING)

\* The callback hands a response to _handleToolCalls only then.
ShouldHandleToolCalls_Mut(toolCalls, webSearch, depth) ==
    Len(toolCalls) > 0 /\ depth < _maxToolCallDepth

ShouldHandleToolCalls(toolCalls, webSearch, depth) ==
    Len(toolCalls) > 0 /\ webSearch /\ depth < _maxToolCallDepth

\* const toolCall = toolCalls[0]
\* this._toolCallDepth++
Incremented_Mut(depth) == depth

Incremented(depth) == depth + 1

FirstToolCall_Mut(toolCalls) == toolCalls[Len(toolCalls)]

FirstToolCall(toolCalls) == toolCalls[1]

\* The branch of _handleToolCalls a tool name selects.
ToolBranch_Mut(name) ==
    CASE name = YOUTUBE_SUMMARY_TOOL -> "youtube_summary"
      [] OTHER -> "web_search"

ToolBranch(name) ==
    CASE name = WEB_SEARCH_TOOL -> "web_search"
      [] name = YOUTUBE_SUMMARY_TOOL -> "youtube_summary"
      [] OTHER -> "unknown"

\* displayError(error.toString(), true) in the callback's error branch.
ProviderErrorOffersSettings_Mut == FALSE

ProviderErrorOffersSettings == TRUE

\* The turns the loop appends.
UserTurn_Mut(input) == Turn(ASSISTANT, input)

UserTurn(input) == Turn(USER, input)

AssistantTurn_Mut(textResponse) == Turn(ASSISTANT, NO_RESPONSE)

AssistantTurn(textResponse) == Turn(ASSISTANT, textResponse)

ToolResultTurn_Mut(content) == Turn(ASSISTANT, content)

ToolResultTurn(content) == Turn(USER, content)

\* The list the callback works with: an exception in _extractToolCalls is
\* caught and leaves toolCalls null.
ToolCallsOf(provider, response) ==
    LET tc == _extractToolCalls(provider, response)
    IN  IF tc.kind = "list" THEN tc.calls ELSE <<>>

\* The text the callback extracts, before the empty check: the response
\* itself when it is a string, the adapter's text for an object ('' when the
\* adapter throws), '' otherwise.
RawText(provider, response) ==
    CASE response.kind = "string" -> response.text
      [] response.kind = "object" ->
            LET tx == _extractResponseText(provider, response)
            IN  IF tx.thrown THEN JStr(<<>>) ELSE tx.v
      [] OTHER -> JStr(<<>>)

\* !textResponse || !textResponse.trim()
IsBlank(v) == ~Truthy(v) \/ Trim(v.s) = <<>>

\* The text displayed and appended as the Assistant turn.
TextResponse(provider, response) ==
    LET raw == RawText(provider, response)
    IN  IF IsBlank(raw) THEN NO_RESPONSE ELSE raw.s

\* --------------------------------------------------------- _handleToolCalls
\* ui is FALSE when a call into the (destroyed) widgets throws.
_handleToolCalls(s, toolCalls, ui) ==
    IF s.depth >= _maxToolCallDepth
    THEN IF ui
         THEN Ok(InputReady(_stopThinkingTimer(displayError(s, SEARCH_LIMIT, FALSE))))
         ELSE Throw(s)
    ELSE
    LET s1 == [s EXCEPT !.depth = Incremented(@)]
        toolCall == FirstToolCall(toolCalls)
        branch == ToolBranch(toolCall.name)
        value == Property(toolCall.input)
    IN  CASE branch = "web_search" ->
               IF toolCall.input.kind = "null" \/ ~ui
               THEN Throw(s1)
               ELSE Ok([displayMessage(s1, ASSISTANT, Searching(QueryText(value)))
                          EXCEPT !.tools = Append(@, [tool |-> "web_search",
                                                     arg |-> QueryText(value)]),
                                 !.started = @ + 1])
          [] branch = "youtube_summary" ->
               IF toolCall.input.kind = "null" \/ ~ui
               THEN Throw(s1)
               ELSE LET s2 == displayMessage(s1, ASSISTANT,
                                                 <<"Fetching YouTube video transcript...">>)
                    IN  CASE value = "undefined" -> Throw(s2)
                          [] value = "invalid" ->
                               Ok(InputReady([_stopThinkingTimer(
                                      displayError([s2 EXCEPT !.started = @ + 1],
                                          TranscriptFailed("Invalid YouTube URL"), FALSE))
                                    EXCEPT !.depth = 0]))
                          [] OTHER ->
                               Ok([s2 EXCEPT !.tools = Append(@, [tool |-> "youtube_summary",
                                                                  arg |-> "dQw4w9WgXcQ"]),
                                             !.started = @ + 1])
          [] OTHER ->
               IF ~ui
               THEN Throw(s1)
               ELSE Ok(InputReady([_stopThinkingTimer(
                           displayError(s1, UnknownTool(toolCall.name), FALSE))
                         EXCEPT !.depth = 0]))

\* ------------------------------------------------- the callback of _sendToLLM
\* request is what _sendToLLM captured: the adapter and enableWebSearch.
\* error is "none" or the kind of the Error.
callback(s, request, error, response, ui) ==
    LET s0 == _stopThinkingTimer(s)
        toolCalls == ToolCallsOf(request.provider, response)
        textResponse == TextResponse(request.provider, response)
    IN  IF error # "none"
        THEN IF ui
             THEN Ok(InputReady(displayError(s0, ErrorToString(error),
                                             ProviderErrorOffersSettings)))
             ELSE Throw(s0)
        ELSE IF ShouldHandleToolCalls(toolCalls, request.enableWebSearch, s0.depth)
        THEN _handleToolCalls(s0, toolCalls, ui)
        ELSE IF ui
             THEN LET s1 == displayMessage(s0, ASSISTANT, textResponse)
                      s2 == [s1 EXCEPT !.history = Append(@, AssistantTurn(textResponse))]
                  IN  Ok(InputReady(setHistory(s2)))
             ELSE Throw(s0)

\* LLMProvider.sendRequest, the completion of send_and_read_async.  outcome
\* is "ok" (status 200, a body that parses) or the failure shape.  An
\* exception of the callback is swallowed when the callback was given the
\* response; when it was given an error, the outer catch calls it again.
sendRequest(s, request, outcome, response, ui) ==
    IF outcome = "ok"
    THEN callback(s, request, "none", response, ui).s
    ELSE LET first == callback(s, request, outcome, response, ui)
         IN  IF first.thrown
             THEN callback(first.s, request, "handler_exception", response, ui).s
             ELSE first.s

\* ------------------------------------------------------- tool completions
SearchErrors == {"http_error", "no_bytes", "bad_json"}

SearchErrorMessage(kind) ==
    CASE kind = "http_error" -> "Search failed: HTTP error. Check your SearXNG instance URL."
      [] kind = "no_bytes" -> "No response from SearXNG instance"
      [] OTHER -> "JSON.parse: unexpected character"

TranscriptErrors == {"ytdlp_failed", "no_subtitles", "read_failed"}

TranscriptErrorMessage(kind) ==
    CASE kind = "ytdlp_failed" -> "yt-dlp failed: "
      [] kind = "no_subtitles" -> "No subtitles available for this video"
      [] OTHER -> "Failed to read subtitle file"

\* The callback _handleToolCalls gives to searchClient.search.  provider and
\* webSearch are the settings _sendToLLM reads.
searchCallback_Mut(s, error, results, provider, webSearch, ui) ==
    IF error # "none"
    THEN Ok(_sendToLLM(s, provider, webSearch))
    ELSE LET s1 == [s EXCEPT !.history = Append(@, ToolResultTurn(WebSearchTurnContent(results))),
                             !.turns = @ + 1]
         IN  Ok(_sendToLLM(setHistory(s1), provider, webSearch))

searchCallback(s, error, results, provider, webSearch, ui) ==
    IF error # "none"
    THEN IF ui
         THEN Ok(InputReady([_stopThinkingTimer(
                     displayError(s, <<"Web search failed: ", SearchErrorMessage(error)>>, FALSE))
                   EXCEPT !.depth = 0]))
         ELSE Throw(s)
    ELSE LET s1 == [s EXCEPT !.history = Append(@, ToolResultTurn(WebSearchTurnContent(results))),
                             !.turns = @ + 1]
         IN  Ok(_sendToLLM(setHistory(s1), provider, webSearch))

\* SearXNGSearchClient.search, the completion of its request: every path
\* runs inside one try whose catch calls the callback with the error.
search(s, query, outcome, data, provider, webSearch, ui) ==
    LET first == IF outcome = "ok"
                 THEN searchCallback(s, "none", _formatResults(_parseResults(data), query),
                                     provider, webSearch, ui)
                 ELSE searchCallback(s, outcome, <<>>, provider, webSearch, ui)
    IN  IF first.thrown /\ outcome # "bad_json"
        THEN searchCallback(first.s, "callback_exception", <<>>, provider, webSearch, ui).s
        ELSE first.s

\* The callback _handleToolCalls gives to fetchTranscript.
transcriptCallback_Mut(s, error, videoId, transcript, provider, webSearch, ui) ==
    LET s1 == [s EXCEPT !.history =
                   Append(@, ToolResultTurn(
                       IF error # "none"
                       THEN TranscriptFailed(TranscriptErrorMessage(error))
                       ELSE formatTranscript(videoId, transcript))),
                        !.turns = @ + 1]
    IN  Ok(_sendToLLM(setHistory(s1), provider, webSearch))

transcriptCallback(s, error, videoId, transcript, provider, webSearch, ui) ==
    IF error # "none"
    THEN IF ui
         THEN Ok(InputReady([_stopThinkingTimer(
                     displayError(s, TranscriptFailed(TranscriptErrorMessage(error)), FALSE))
                   EXCEPT !.depth = 0]))
         ELSE Throw(s)
    ELSE LET s1 == [s EXCEPT !.history = Append(@, ToolResultTurn(formatTranscript(videoId, transcript))),
                             !.turns = @ + 1]
         IN  Ok(_sendToLLM(setHistory(s1), provider, webSearch))

\* YouTubeTranscriptFetcher.fetchTranscript, the completion of the
\* subprocess: one try whose catch calls the callback with the error.
fetchTranscript(s, videoId, outcome, transcript, provider, webSearch, ui) ==
    LET first == IF outcome = "ok"
                 THEN transcriptCallback(s, "none", videoId, transcript, provider, webSearch, ui)
                 ELSE transcriptCallback(s, outcome, videoId, <<>>, provider, webSearch, ui)
    IN  IF first.thrown
        THEN transcriptCallback(first.s, "callback_exception", videoId, <<>>,
                                provider, webSearch, ui).s
        ELSE first.s

\* ------------------------------------------------------------------ inputs
\* What the user types.
UserTexts == {<<"hi">>, <<THINKING, "of a name for my cat">>}

\* Histories the settings store may hold when the extension starts.
StoredHistories ==
    {<<>>,
     <<Turn(USER, <<"hello?">>)>>,
     <<Turn(USER, <<"hello?">>), Turn(ASSISTANT, <<"Hello!">>)>>}

ResponseTexts ==
    {JNull, JStr(<<>>), JStr(<<" ">>), JStr(<<"Hello!">>),
     JStr(<<"<think>", "the user greets me", THINK_END, "\n", "Hello!">>)}

WireCall(name, enc, val) == [name |-> name, arguments |-> Arg(enc, val)]

ToolCallLists ==
    {<<WireCall(WEB_SEARCH_TOOL, e, "valid")>> : e \in {"object", "string"}}
    \cup {<<WireCall(WEB_SEARCH_TOOL, "absent", "null")>>,
          <<WireCall(WEB_SEARCH_TOOL, "string", "null")>>}
    \cup {<<WireCall(YOUTUBE_SUMMARY_TOOL, e, v)>> :
             e \in {"object", "string"}, v \in {"valid", "invalid", "no_key"}}
    \cup {<<WireCall("delete_database", e, "valid")>> : e \in {"object", "string"}}
    \cup {<<WireCall(WEB_SEARCH_TOOL, e, "valid"), WireCall(YOUTUBE_SUMMARY_TOOL, e, "valid")>> :
             e \in {"object", "string"}}

Responses ==
    {Response("object", TRUE, t, <<>>) : t \in ResponseTexts}
    \cup {Response("object", TRUE, t, c) : t \in {JNull, JStr(<<"Hello!">>)}, c \in ToolCallLists}
    \cup {Response("object", FALSE, JNull, <<>>),
          Response("string", FALSE, JStr(<<"Hello!">>), <<>>),
          Response("null", FALSE, JNull, <<>>)}

\* ------------------------------------------------------------------ events
\* arg is the query / video_url the first tool call carries ("none" without
\* a tool call or with an input that is null), more tells whether the list
\* has further tool calls.
Ev(op, error, calls, acted, tool, blank, text, arg, more) ==
    [text |-> text,
     calls |-> calls,
     error |-> error,
     tool |-> tool,
     arg |-> arg,
     op |-> op,
     acted |-> acted,
     blank |-> blank,
     more |-> more]

Plain(op) == Ev(op, "none", FALSE, FALSE, "none", FALSE, <<>>, "none", FALSE)

\* ------------------------------------------------------------------ probes
\* A function of an adapter or of the transport applied on its own: the
\* function, the adapter it belongs to, its inputs and its result.
Probe(op, provider, input, out) ==
    [input |-> input, provider |-> provider, op |-> op, out |-> out]

NoProbe == Probe("none", "none", <<>>, <<>>)

\* ----------------------------------------------------------------- actions
Init ==
    /\ llmProvider \in LLMProviders
    /\ enableWebSearch \in BOOLEAN
    /\ _history \in StoredHistories
    /\ settingsHistory = _history
    /\ _chatInput = [text |-> <<>>, reactive |-> TRUE]
    /\ _thinkingTimer = FALSE
    /\ elapsed = 0
    /\ _toolCallDepth = 0
    /\ inflight = <<>>
    /\ toolsInFlight = <<>>
    /\ _chatDisplay = loadHistory(_history)
    /\ destroyed = FALSE
    /\ started = 0
    /\ turns = 0
    /\ event = Plain("init")
    /\ probe = NoProbe

\* The user edits the entry, which the code makes possible only while the
\* entry is reactive.
typeText(t) ==
    /\ ~destroyed
    /\ Len(_history) < MaxHistory
    /\ _chatInput.reactive
    /\ t # _chatInput.text
    /\ _chatInput' = [_chatInput EXCEPT !.text = t]
    /\ event' = Plain("typeText")
    /\ UNCHANGED <<_history, settingsHistory, _thinkingTimer, elapsed, _toolCallDepth,
                   inflight, toolsInFlight, _chatDisplay, destroyed, llmProvider,
                   enableWebSearch, started, turns, probe>>

\* The entry's "activate" signal.  When the handler returns at once nothing
\* changes; that step is recorded only for a text typed into the ready entry.
_handleUserInput ==
    /\ ~destroyed
    /\ IF UserInputAccepted(_chatInput.text)
       THEN /\ Len(_history) < MaxHistory
            /\ LET input == _chatInput.text
                   s1 == displayMessage(Self, USER, input)
                   s2 == [s1 EXCEPT !.history = Append(@, UserTurn(input)),
                                    !.depth = 0, !.started = 0, !.turns = 0]
                   s3 == _sendToLLM(s2, llmProvider, enableWebSearch)
                   s4 == [s3 EXCEPT !.reactive = FALSE]
               IN  Become(_startThinkingTimer(s4))
            /\ event' = Plain("userInput")
       ELSE /\ _chatInput.reactive /\ _chatInput.text # <<>>
            /\ event' = Plain("userInputIgnored")
            /\ UNCHANGED <<_history, settingsHistory, _chatInput, _thinkingTimer,
                           elapsed, _toolCallDepth, inflight, toolsInFlight,
                           _chatDisplay, started, turns>>
    /\ UNCHANGED <<destroyed, llmProvider, enableWebSearch, probe>>

\* The tick of the thinking timer.
thinkingTick ==
    /\ ~destroyed
    /\ _thinkingTimer
    /\ elapsed < MaxElapsed
    /\ elapsed' = elapsed + 1
    /\ _chatInput' = [_chatInput EXCEPT !.text = ThinkingText(elapsed + 1)]
    /\ event' = Plain("tick")
    /\ UNCHANGED <<_history, settingsHistory, _thinkingTimer, _toolCallDepth,
                   inflight, toolsInFlight, _chatDisplay, destroyed, llmProvider,
                   enableWebSearch, started, turns, probe>>

\* The new-conversation button's "clicked" signal.
_handleNewConversation ==
    /\ ~destroyed
    /\ IF NewConversationAllowed(_chatInput.text)
       THEN /\ _history' = <<>>
            /\ settingsHistory' = <<>>
            /\ _chatDisplay' = NoChild
       ELSE /\ _chatDisplay' = displayMessage(Self, ASSISTANT, CANNOT_RESTART).display
            /\ UNCHANGED <<_history, settingsHistory>>
    /\ event' = Plain("newConversation")
    /\ UNCHANGED <<_chatInput, _thinkingTimer, elapsed, _toolCallDepth, inflight,
                   toolsInFlight, destroyed, llmProvider, enableWebSearch,
                   started, turns, probe>>

\* Calls into the widgets work; after destroy() they may throw instead.
UiOutcomes == IF destroyed THEN BOOLEAN ELSE {TRUE}

\* A provider request fails.
requestFails(i, kind, ui) ==
    /\ i \in 1..Len(inflight)
    /\ LET request == inflight[i]
           s == [Self EXCEPT !.inflight = RemoveAt(@, i)]
       IN  Become(sendRequest(s, request, kind, Response("null", FALSE, JNull, <<>>), ui))
    /\ event' = Ev("response", kind, FALSE, FALSE, "none", FALSE, <<>>, "none", FALSE)
    /\ UNCHANGED <<destroyed, llmProvider, enableWebSearch, probe>>

\* A provider request is answered with status 200 and a body that parses.
requestSucceeds(i, response, ui) ==
    /\ i \in 1..Len(inflight)
    /\ LET request == inflight[i]
           s == [Self EXCEPT !.inflight = RemoveAt(@, i)]
           toolCalls == ToolCallsOf(request.provider, response)
           raw == RawText(request.provider, response)
       IN  /\ Become(sendRequest(s, request, "ok", response, ui))
           /\ event' = Ev("response", "none", Len(toolCalls) > 0,
                          ShouldHandleToolCalls(toolCalls, request.enableWebSearch,
                                                _toolCallDepth),
                          IF Len(toolCalls) > 0 THEN toolCalls[1].name ELSE "none",
                          IsBlank(raw),
                          IF IsBlank(raw) THEN <<>> ELSE raw.s,
                          IF Len(toolCalls) > 0 /\ toolCalls[1].input.kind # "null"
                          THEN Property(toolCalls[1].input) ELSE "none",
                          Len(toolCalls) > 1)
    /\ UNCHANGED <<destroyed, llmProvider, enableWebSearch, probe>>

\* A tool execution completes: the search request, or the yt-dlp subprocess.
toolCompletes(i, outcome, data, transcript, ui) ==
    /\ i \in 1..Len(toolsInFlight)
    /\ LET t == toolsInFlight[i]
           s == [Self EXCEPT !.tools = RemoveAt(@, i)]
       IN  IF t.tool = "web_search"
           THEN /\ outcome \in SearchErrors \cup {"ok"}
                /\ Become(search(s, t.arg, outcome, data, llmProvider, enableWebSearch, ui))
                /\ event' = Ev("search", IF outcome = "ok" THEN "none" ELSE outcome,
                               FALSE, FALSE, t.tool, FALSE, <<>>, t.arg, FALSE)
           ELSE /\ outcome \in TranscriptErrors \cup {"ok"}
                /\ Become(fetchTranscript(s, t.arg, outcome, transcript,
                                          llmProvider, enableWebSearch, ui))
                /\ event' = Ev("transcript", IF outcome = "ok" THEN "none" ELSE outcome,
                               FALSE, FALSE, t.tool, FALSE, <<>>, t.arg, FALSE)
    /\ UNCHANGED <<destroyed, llmProvider, enableWebSearch, probe>>

\* GarefowlExtension.disable(): Garefowl.destroy().  Nothing in flight is
\* aborted.
destroy ==
    /\ ~destroyed
    /\ destroyed' = TRUE
    /\ _thinkingTimer' = FALSE
    /\ elapsed' = 0
    /\ event' = Plain("destroy")
    /\ UNCHANGED <<_history, settingsHistory, _chatInput, _toolCallDepth, inflight,
                   toolsInFlight, _chatDisplay, llmProvider, enableWebSearch,
                   started, turns, probe>>

Next ==
    \/ \E t \in UserTexts \cup {<<>>} : typeText(t)
    \/ _handleUserInput
    \/ thinkingTick
    \/ _handleNewConversation
    \/ \E i \in 1..Len(inflight), kind \in TransportErrors, ui \in UiOutcomes :
          requestFails(i, kind, ui)
    \/ \E i \in 1..Len(inflight), response \in Responses, ui \in UiOutcomes :
          requestSucceeds(i, response, ui)
    \/ \E i \in 1..Len(toolsInFlight),
          outcome \in SearchErrors \cup TranscriptErrors \cup {"ok"},
          data \in {<<[content |-> "Sunny", title |-> "Weather",
                       url |-> "https://weather.example"]>>},
          transcript \in {<<"never gonna give you up">>}, ui \in UiOutcomes :
          toolCompletes(i, outcome, data, transcript, ui)
    \/ destroy

Spec == Init /\ [][Next]_vars

\* ------------------------------------------- adapters applied on their own
\* The functions of the adapters, of the transport and of the tool executors,
\* each applied once to inputs of its own: the adapter is the one of the
\* provider setting.
ApiKeys == {"sk-key-A", "sk-key-B"}

\* Parsed response bodies that are objects.
ObjectResponses == {r \in Responses : r.kind = "object"}

\* Histories given to _generateRequestBody.
ProbeHistories ==
    StoredHistories
    \cup {<<Turn(USER, <<"hi">>), Turn(ASSISTANT, <<"Hello!">>), Turn(USER, <<"and now?">>)>>,
          <<Turn(USER, <<"hi">>), Turn(USER, <<"[WEB SEARCH RESULTS", "..">>)>>}

ProbeInit ==
    /\ Init
    /\ _history = <<>>

loopVars == <<_history, settingsHistory, _chatInput, _thinkingTimer, elapsed,
              _toolCallDepth, inflight, toolsInFlight, _chatDisplay, destroyed,
              llmProvider, enableWebSearch, started, turns, event>>

applyExtractResponseText(response) ==
    /\ probe = NoProbe
    /\ probe' = Probe("_extractResponseText", llmProvider, response,
                      _extractResponseText(llmProvider, response))
    /\ UNCHANGED loopVars

\* Lines of a subtitle file, and files of up to MaxLines lines.
VttContents ==
    LET VttLines == {<<VTT_HEADER>>, <<>>, <<"1">>,
                     <<"00:00:01.000", " ", CUE_ARROW, " ", "00:00:03.000">>,
                     <<"hello">>, <<"<c>", "hello", "</c>", " ">>, <<"world">>}
    IN  UNION {[1..n -> VttLines] : n \in 0..MaxLines}

SubprocessRun(successful, written, load, vtt, delete) ==
    [successful |-> successful, written |-> written, load |-> load,
     vtt |-> vtt, delete |-> delete]

SubprocessRuns ==
    {SubprocessRun(successful, written, load, <<<<VTT_HEADER>>, <<"hello">>, <<"world">>>>, delete) :
        successful \in BOOLEAN, written \in BOOLEAN,
        load \in {"ok", "false", "throws"}, delete \in {"ok", "throws"}}

\* Bodies the search backend may answer with.
SearchEntries ==
    {[content |-> "Sunny", title |-> "Weather", url |-> "https://weather.example"],
     [content |-> "Sunny", title |-> "", url |-> "https://weather.example"],
     [content |-> "", title |-> "Weather", url |-> ""]}

SearchBodies ==
    {SearchBody("null", "missing", <<>>),
     SearchBody("object", "missing", <<>>),
     SearchBody("object", "not_array", <<>>)}
    \cup {SearchBody("object", "list", items) :
             items \in UNION {[1..n -> SearchEntries] : n \in 0..2}}

applySearch(query, outcome, data) ==
    /\ probe = NoProbe
    /\ probe' = Probe("search", llmProvider,
                      [query |-> query, outcome |-> outcome, data |-> data],
                      searchCompletion(query, outcome, data))
    /\ UNCHANGED loopVars

applyParseVTT(vttContent) ==
    /\ probe = NoProbe
    /\ probe' = Probe("_parseVTT", llmProvider, [vttContent |-> vttContent],
                      [transcript |-> _parseVTT(vttContent)])
    /\ UNCHANGED loopVars

applyFetchTranscript(run) ==
    /\ probe = NoProbe
    /\ probe' = Probe("fetchTranscript", llmProvider, run, subprocessFinished(run))
    /\ UNCHANGED loopVars

applyExtractToolCalls(response) ==
    /\ probe = NoProbe
    /\ probe' = Probe("_extractToolCalls", llmProvider, response,
                      _extractToolCalls(llmProvider, response))
    /\ UNCHANGED loopVars

applyGenerateRequestBody(model, history) ==
    /\ probe = NoProbe
    /\ probe' = Probe("_generateRequestBody", llmProvider,
                      [model |-> model, history |-> history],
                      _generateRequestBody(llmProvider, enableWebSearch, model, history))
    /\ UNCHANGED loopVars

\* sendRequest for a history and a completion of the request.
SendRequestResult(provider, webSearch, model, apiKey, history, outcome, throws) ==
    sendRequestCallbacks(outcome, throws, _getEndpointUrl(provider, model, apiKey),
                         _generateRequestBody(provider, webSearch, model, history))

applySendRequest(model, apiKey, history, outcome, throws) ==
    /\ probe = NoProbe
    /\ probe' = Probe("sendRequest", llmProvider,
                      [model |-> model,
                       history |-> history,
                       outcome |-> outcome,
                       apiKey |-> apiKey,
                       throws |-> throws],
                      SendRequestResult(llmProvider, enableWebSearch, model, apiKey,
                                        history, outcome, throws))
    /\ UNCHANGED loopVars

ProbeNext ==
    \/ \E response \in ObjectResponses : applyExtractResponseText(response)
    \/ \E response \in ObjectResponses : applyExtractToolCalls(response)
    \/ \E vttContent \in VttContents : applyParseVTT(vttContent)
    \/ \E query \in {"weather today", "undefined"},
          outcome \in SearchErrors \cup {"ok"}, data \in SearchBodies :
          applySearch(query, outcome, data)
    \/ \E run \in SubprocessRuns : applyFetchTranscript(run)
    \/ \E model \in Models, history \in ProbeHistories :
          applyGenerateRequestBody(model, history)
    \/ \E model \in Models, apiKey \in ApiKeys, history \in {<<Turn(USER, <<"hi">>)>>},
          outcome \in TransportErrors \cup {"ok"}, throws \in SUBSET {1, 2} :
          applySendRequest(model, apiKey, history, outcome, throws)

AdapterSpec == ProbeInit /\ [][ProbeNext]_vars

\* -------------------------------------- the polling variant (extension.js)
\* src/extension.js sends the request and then polls global.llmPending every
\* 500 ms.  Its state is kept in probe: sent (requests sent), polls (poll
\* rounds counted), llmPending (global.llmPending), timers (poll timer
\* sources installed and not removed), inflight (requests not yet completed)
\* and polled (every live timer has ticked since the last request completed).
Polling(nSent, nPolls, pending, nTimers, nInflight, hasPolled) ==
    Probe("polling", llmProvider,
          [sent |-> nSent, polls |-> nPolls],
          [inflight |-> nInflight,
           llmPending |-> pending,
           timers |-> nTimers,
           polled |-> hasPolled])

\* _sendToLLM of the polling variant: global.llmPending = true, then
\* llmProvider.sendRequest(this._history, callback), then
\* GLib.timeout_add(500, checkResult), whose source id is not kept.  The
\* input is disabled until the callback has run, so one request is sent at
\* a time.
pollingSendToLLM ==
    /\ \/ /\ probe = NoProbe
          /\ probe' = Polling(1, 0, TRUE, 1, 1, FALSE)
       \/ /\ probe.op = "polling"
          /\ probe.out.inflight = 0
          /\ probe.input.sent < MaxRequests
          /\ probe' = Polling(probe.input.sent + 1, probe.input.polls, TRUE,
                              probe.out.timers + 1, 1, FALSE)
    /\ UNCHANGED loopVars

\* The request completes: sendRequest calls the callback it was given, which
\* displays the answer and enables the input.  That callback is not
\* simpleCallback, the only code that sets global.llmPending to false.
pollingCallback ==
    /\ probe.op = "polling"
    /\ probe.out.inflight > 0
    /\ probe' = Polling(probe.input.sent, probe.input.polls, probe.out.llmPending,
                        probe.out.timers, probe.out.inflight - 1, FALSE)
    /\ UNCHANGED loopVars

\* 500 ms pass and every live poll timer runs checkResult: SOURCE_REMOVE
\* when global.llmPending is false, SOURCE_CONTINUE otherwise.
checkResult ==
    /\ probe.op = "polling"
    /\ probe.out.timers > 0
    /\ probe.input.polls < MaxPolls
    /\ probe' = Polling(probe.input.sent, probe.input.polls + 1, probe.out.llmPending,
                        IF ~probe.out.llmPending THEN 0 ELSE probe.out.timers,
                        probe.out.inflight,
                        probe.out.inflight = 0)
    /\ UNCHANGED loopVars

PollingNext ==
    \/ pollingSendToLLM
    \/ pollingCallback
    \/ checkResult

PollingSpec == ProbeInit /\ [][PollingNext]_vars

\* ================================================================== claims
Quiet == inflight = <<>> /\ toolsInFlight = <<>>

ResponseStep == event'.op = "response" /\ event'.error = "none"

\* C1: after one user input at most 3 tool executions are started and at
\* most 3 tool-result turns are appended, whatever the provider answers.
C1_AtMostThreeRoundTrips ==
    started <= 3 /\ turns <= 3

\* Three round-trips were made and a fourth tool-call response was not acted on.
C1_Witness ==
    /\ started = 3 /\ turns = 3
    /\ event.op = "response" /\ event.calls /\ ~event.acted

\* C2: with web search enabled, a tool-call response that arrives after 3
\* completed round-trips ends the exchange with the "search limit reached"
\* error and appends no turn.
C2_DepthLimitFails ==
    [][(ResponseStep /\ event'.calls /\ turns = 3 /\ enableWebSearch /\ ~destroyed)
         => /\ _history' = _history
            /\ _chatDisplay' = Child("error", ASSISTANT, SEARCH_LIMIT, FALSE)]_vars

\* C3: an exchange that has ended (nothing in flight) has re-enabled the
\* input and stopped the thinking timer.
C3_InputRestoredOnExit ==
    (~destroyed /\ Quiet) => (_chatInput.reactive /\ ~_thinkingTimer)

C5_NoMutationAfterCancel ==
    [][(destroyed /\ event'.op = "response")
         => (_history' = _history /\ settingsHistory' = settingsHistory)]_vars

\* C6: with web search enabled and the depth below 3, a response whose first
\* tool call names a tool other than web_search and youtube_summary ends the
\* exchange with the unknown-tool error: no turn appended, no tool executor
\* run, no request sent.
C6_UnknownTool ==
    [][(ResponseStep /\ event'.calls /\ enableWebSearch /\ _toolCallDepth < 3
        /\ ~destroyed
        /\ event'.tool \notin {WEB_SEARCH_TOOL, YOUTUBE_SUMMARY_TOOL})
         => /\ _history' = _history
            /\ settingsHistory' = settingsHistory
            /\ toolsInFlight' = <<>>
            /\ inflight' = <<>>
            /\ started' = started
            /\ _chatDisplay' = Child("error", ASSISTANT, UnknownTool(event'.tool), FALSE)
            /\ _chatInput' = [text |-> <<>>, reactive |-> TRUE]]_vars

C6_Witness ==
    /\ event.op = "response" /\ event.acted /\ event.tool = "delete_database"
    /\ ~destroyed /\ _toolCallDepth = 0

\* C7: a failed provider request ends the exchange with the error displayed
\* and the settings button offered; the history and the stored history are
\* those of the moment the request was sent.
C7_ProviderFailure ==
    [][(event'.op = "response" /\ event'.error \in TransportErrors /\ ~destroyed)
         => /\ inflight # <<>>
            /\ _history' = inflight[1].history
            /\ settingsHistory' = inflight[1].stored
            /\ inflight' = <<>> /\ toolsInFlight' = <<>>
            /\ _chatDisplay' = Child("error", ASSISTANT, ErrorToString(event'.error), TRUE)
            /\ _chatInput' = [text |-> <<>>, reactive |-> TRUE]]_vars

C7_Witness ==
    /\ event.op = "response" /\ event.error = "http_error" /\ ~destroyed
    /\ _chatDisplay.settingsButton
    /\ Len(_history) > Len(settingsHistory)

\* C8: a response without text and without a tool call acted on appends no
\* Assistant turn and is reported as an error.
C8_EmptyResponseFails ==
    [][(ResponseStep /\ ~event'.acted /\ event'.blank /\ ~destroyed)
         => (_history' = _history /\ _chatDisplay'.kind = "error")]_vars

\* C9: a response with non-blank text T and no tool call acted on appends
\* exactly the turn {Assistant, T}, stores the resulting history and
\* displays T.
C9_FinalText ==
    [][(ResponseStep /\ ~event'.acted /\ ~event'.blank /\ ~destroyed)
         => /\ _history' = Append(_history, Turn(ASSISTANT, event'.text))
            /\ settingsHistory' = _history'
            /\ _chatDisplay' = Child("message", ASSISTANT, event'.text, FALSE)
            /\ _chatInput' = [text |-> <<>>, reactive |-> TRUE]
            /\ inflight' = <<>>]_vars

\* Scenario A: history [{User, "hi"}], the OpenAI adapter, content "Hello!".
C9_Witness ==
    /\ llmProvider = OPENAI /\ ~destroyed
    /\ event.op = "response" /\ ~event.acted /\ event.text = <<"Hello!">>
    /\ _history = <<Turn(USER, <<"hi">>), Turn(ASSISTANT, <<"Hello!">>)>>
    /\ settingsHistory = _history

\* C10: the history of every request handed to an adapter ends with a User
\* turn.
C10_LastTurnIsUser ==
    \A i \in 1..Len(inflight) :
        /\ inflight[i].history # <<>>
        /\ inflight[i].history[Len(inflight[i].history)].role = USER

\* A request sent after a tool result, on top of a stored history.
C10_Witness ==
    /\ inflight # <<>> /\ turns >= 1
    /\ Len(inflight[1].history) >= 4

IsPrefix(a, b) == Len(a) <= Len(b) /\ SubSeq(b, 1, Len(a)) = a

\* C11: every step other than a new conversation leaves the turns the
\* history has, and their order, as they are (the new history extends the
\* old one); a new conversation changes nothing or empties both the history
\* and the stored history.
C11_AppendOnly ==
    [][/\ event'.op # "newConversation" => IsPrefix(_history, _history')
       /\ event'.op = "newConversation" =>
              \/ _history' = _history /\ settingsHistory' = settingsHistory
              \/ _history' = <<>> /\ settingsHistory' = <<>>]_vars

\* A Gemini exchange with web search: a stored turn, the user turn, a
\* tool-result turn and the answer, each request built from the history.
C11_Witness ==
    /\ llmProvider = GEMINI /\ enableWebSearch
    /\ event.op = "response" /\ ~event.acted /\ turns = 1
    /\ Len(_history) = 4
    /\ _history[1] = Turn(USER, <<"hello?">>)

\* C12: the activate signal with a non-empty text in the ready entry, with
\* nothing in flight, appends exactly the User turn with that text, sets the
\* depth to 0 and dispatches exactly one request.
C12_UserInputAppended ==
    [][(event'.op \in {"userInput", "userInputIgnored"}
        /\ Quiet /\ _chatInput.reactive /\ _chatInput.text # <<>>)
         => /\ _history' = Append(_history, Turn(USER, _chatInput.text))
            /\ _toolCallDepth' = 0
            /\ Len(inflight') = 1]_vars

\* C13: a response that requests web_search with a query, with web search
\* enabled and the depth below 3, starts the search with that query and
\* appends nothing; when the search succeeds exactly one User turn that
\* begins with the "[WEB SEARCH RESULTS" marker is appended and stored, and
\* the one request then sent carries that history and that stored history.
C13_WebSearchRoundTrip ==
    [][/\ (ResponseStep /\ event'.calls /\ enableWebSearch /\ _toolCallDepth < 3
           /\ ~destroyed /\ event'.tool = WEB_SEARCH_TOOL /\ event'.arg = "valid")
          => /\ toolsInFlight' = <<[tool |-> "web_search", arg |-> "weather today"]>>
             /\ inflight' = <<>>
             /\ _history' = _history
       /\ (event'.op = "search" /\ event'.error = "none")
          => /\ Len(_history') = Len(_history) + 1
             /\ IsPrefix(_history, _history')
             /\ _history'[Len(_history')].role = USER
             /\ _history'[Len(_history')].content[1] = "[WEB SEARCH RESULTS"
             /\ settingsHistory' = _history'
             /\ toolsInFlight' = <<>>
             /\ Len(inflight') = 1
             /\ inflight'[1].history = _history'
             /\ inflight'[1].stored = _history']_vars

\* Scenario B: the Anthropic adapter, one search, the request sent again.
C13_Witness ==
    /\ llmProvider = ANTHROPIC /\ enableWebSearch
    /\ event.op = "search" /\ event.error = "none" /\ event.arg = "weather today"
    /\ Len(inflight) = 1 /\ turns = 1
    /\ inflight[1].history[Len(inflight[1].history)].content[1] = "[WEB SEARCH RESULTS"
    /\ settingsHistory = _history

\* C14: a response that carries tool calls while web search is disabled or
\* the depth is 3 starts no tool execution and appends no tool-result turn;
\* its text, when it has one, is appended as the Assistant turn and
\* displayed, and the input is ready again.
C14_ToolCallsIgnored ==
    [][(ResponseStep /\ event'.calls /\ (~enableWebSearch \/ _toolCallDepth = 3)
        /\ ~destroyed)
         => /\ toolsInFlight' = <<>> /\ inflight' = <<>>
            /\ started' = started /\ turns' = turns
            /\ IsPrefix(_history, _history')
            /\ \A i \in (Len(_history) + 1)..Len(_history') : _history'[i].role # USER
            /\ _chatDisplay'.kind = "message"
            /\ _chatInput' = [text |-> <<>>, reactive |-> TRUE]
            /\ ~event'.blank =>
                  /\ _history' = Append(_history, Turn(ASSISTANT, event'.text))
                  /\ _chatDisplay' = Child("message", ASSISTANT, event'.text, FALSE)]_vars

\* Web search disabled, a response with the text "Hello!" and a tool call.
C14_Witness ==
    /\ ~enableWebSearch /\ ~destroyed
    /\ event.op = "response" /\ event.calls /\ ~event.acted
    /\ event.tool = WEB_SEARCH_TOOL /\ event.text = <<"Hello!">>
    /\ _history # <<>> /\ _history[Len(_history)] = Turn(ASSISTANT, <<"Hello!">>)
    /\ toolsInFlight = <<>>

C16_NoSilentRetry ==
    [][/\ (inflight' # <<>> /\ inflight' # inflight)
          => \/ /\ event'.op = "userInput"
                /\ _history' = Append(_history, Turn(USER, _chatInput.text))
             \/ /\ event'.op \in {"search", "transcript"} /\ event'.error = "none"
                /\ Len(_history') = Len(_history) + 1
                /\ IsPrefix(_history, _history')
                /\ _history'[Len(_history')].role = USER
       /\ (event'.op \in {"response", "search", "transcript"} /\ event'.error # "none")
          => inflight' = <<>> /\ toolsInFlight' = <<>>]_vars

\* A search failed after one completed round-trip: nothing is in flight.
C16_Witness ==
    /\ event.op = "search" /\ event.error = "http_error" /\ ~destroyed
    /\ turns = 1 /\ inflight = <<>> /\ toolsInFlight = <<>>
    /\ _chatInput.reactive

\* C17: the error texts sendRequest hands to the callback do not depend on
\* the API key: with any other key, the same request and the same failure
\* give the same texts.
C17_ErrorTextHidesApiKey ==
    probe.op = "sendRequest" =>
        \A k \in ApiKeys :
            SendRequestResult(probe.provider, enableWebSearch, probe.input.model, k,
                              probe.input.history, probe.input.outcome,
                              probe.input.throws).calls = probe.out.calls

\* C18: sendRequest calls the callback exactly once for a request and lets
\* no exception leave its completion handler, whether the callback throws
\* or not.
C18_CallbackExactlyOnce ==
    probe.op = "sendRequest" =>
        (Len(probe.out.calls) = 1 /\ ~probe.out.escaped)

\* C19: for a parsed response without the expected fields (no envelope, or
\* no text in it) _extractResponseText returns the empty string and does not
\* throw.
C19_ExtractResponseTextTotal ==
    (probe.op = "_extractResponseText"
     /\ (~probe.input.env \/ probe.input.text = JNull))
        => probe.out = TxValue(JStr(<<>>))

\* C20, as claimed: for an empty history the message list of the request
\* body is empty.
C20_EmptyHistoryEmptyMessages ==
    (probe.op = "_generateRequestBody" /\ probe.input.history = <<>>)
        => probe.out.messages = <<>>

\* C20, amended: for an empty history the message list holds no turn of a
\* conversation: it is the system instruction when tools are offered (not
\* for Anthropic and Gemini), followed for Ollama by one user message with
\* empty content.
C20_EmptyHistoryBody ==
    (probe.op = "_generateRequestBody" /\ probe.input.history = <<>>)
        => LET tools == enableWebSearch
                        /\ (probe.provider = OLLAMA => probe.input.model = "llama3.1")
           IN  probe.out.messages =
                   (IF tools /\ probe.provider \in {OPENAI, OPENROUTER, GROQ, OLLAMA}
                    THEN <<[content |-> SYSTEM_PROMPT, role |-> "system"]>>
                    ELSE <<>>)
                   \o (IF probe.provider = OLLAMA
                       THEN <<[content |-> <<>>, role |-> "user"]>>
                       ELSE <<>>)

\* Ollama with a tool model and web search: system instruction, dummy user.
C20_Witness ==
    /\ probe.op = "_generateRequestBody" /\ probe.input.history = <<>>
    /\ probe.provider = OLLAMA /\ enableWebSearch /\ probe.input.model = "llama3.1"
    /\ Len(probe.out.messages) = 2

\* C21: for a response whose tool calls carry a JSON object as arguments,
\* as an object or as a string holding its JSON text, _extractToolCalls does
\* not throw, returns every input as the parsed object, and returns the same
\* under the other encoding.
C21_ArgumentsNormalized ==
    LET OtherEncoding(response) ==
            [response EXCEPT !.calls =
                [i \in 1..Len(response.calls) |->
                    [response.calls[i] EXCEPT !.arguments.enc =
                        IF @ = "object" THEN "string" ELSE "object"]]]
    IN
    (/\ probe.op = "_extractToolCalls"
     /\ probe.input.env /\ probe.input.calls # <<>>
     /\ \A i \in 1..Len(probe.input.calls) :
           /\ probe.input.calls[i].arguments.enc \in {"object", "string"}
           /\ probe.input.calls[i].arguments.val \in {"valid", "invalid", "no_key"})
        => /\ probe.out.kind = "list"
           /\ \A i \in 1..Len(probe.out.calls) :
                 probe.out.calls[i].input.kind = "object"
           /\ _extractToolCalls(probe.provider, OtherEncoding(probe.input)) = probe.out

\* A history of User and Assistant turns that ends with a User turn.
EndsWithUser(history) ==
    /\ history # <<>>
    /\ \A i \in 1..Len(history) : history[i].role \in {"user", "assistant"}
    /\ history[Len(history)].role = "user"

\* C22, as claimed: for such a history the message list has exactly one
\* message per turn, in order, with the turn's content and the adapter's
\* role name.
C22_ExactlyOneMessagePerTurn ==
    (probe.op = "_generateRequestBody" /\ EndsWithUser(probe.input.history))
        => LET h == probe.input.history
               msgs == probe.out.messages
           IN  /\ Len(msgs) = Len(h)
               /\ \A i \in 1..Len(h) :
                     /\ msgs[i].content = h[i].content
                     /\ msgs[i].role =
                           (IF h[i].role = "user" THEN "user"
                            ELSE IF probe.provider = GEMINI THEN "model"
                            ELSE "assistant")

\* C22, amended: after the system message that OpenAI, OpenRouter, Groq and
\* Ollama put first when tools are offered, the message list has exactly one
\* message per turn, in order, with the adapter's role name and the turn's
\* content, except that Gemini with tools offered puts the system
\* instruction in front of the first turn's text.
C22_OneMessagePerTurn ==
    (probe.op = "_generateRequestBody" /\ EndsWithUser(probe.input.history))
        => LET h == probe.input.history
               msgs == probe.out.messages
               tools == enableWebSearch
                        /\ (probe.provider = OLLAMA => probe.input.model = "llama3.1")
               lead == IF tools /\ probe.provider \in {OPENAI, OPENROUTER, GROQ, OLLAMA}
                       THEN 1 ELSE 0
           IN  /\ Len(msgs) = lead + Len(h)
               /\ lead = 1 => msgs[1] = [content |-> SYSTEM_PROMPT, role |-> "system"]
               /\ \A i \in 1..Len(h) :
                     /\ msgs[lead + i].content =
                           (IF probe.provider = GEMINI /\ tools /\ i = 1
                            THEN GEMINI_SYSTEM_PREFIX \o h[i].content
                            ELSE h[i].content)
                     /\ msgs[lead + i].role =
                           (IF h[i].role = "user" THEN "user"
                            ELSE IF probe.provider = GEMINI THEN "model"
                            ELSE "assistant")

\* A User turn followed by a tool-result turn, and a history with an
\* Assistant turn in the middle, for Gemini.
C22_Witness ==
    /\ probe.op = "_generateRequestBody" /\ probe.provider = GEMINI
    /\ EndsWithUser(probe.input.history)
    /\ Len(probe.input.history) = 3
    /\ probe.out.messages[2].role = "model"

\* C23: once the yt-dlp subprocess has finished and fetchTranscript has
\* called the callback, with a transcript or with an error, the subtitle
\* file of the video is gone.
C23_SubtitleFileDeleted ==
    probe.op = "fetchTranscript" => ~probe.out.file

\* C24: the transcript _parseVTT returns is the text lines of the file
\* (cue timings, cue indices, the header and empty lines dropped, tags
\* removed) with only the adjacent repeats removed: a line that repeats an
\* earlier line that is not its predecessor is kept.
C24_OnlyAdjacentRepeatsRemoved ==
    probe.op = "_parseVTT"
        => LET vttContent == probe.input.vttContent
               cleanedLines ==
                   SelectSeq([i \in 1..Len(vttContent) |->
                                 IF IsTextLine(Trim(vttContent[i]))
                                 THEN Trim(RemoveTags(Trim(vttContent[i])))
                                 ELSE <<>>],
                             LAMBDA line : line # <<>>)
               kept == {i \in 1..Len(cleanedLines) :
                           i = 1 \/ cleanedLines[i] # cleanedLines[i - 1]}
               expected ==
                   [j \in 1..Cardinality(kept) |->
                       cleanedLines[CHOOSE i \in kept :
                                       Cardinality({k \in kept : k <= i}) = j]]
           IN  probe.out.transcript = Join(expected)

\* C25: when the search request succeeds and the body is an object with no
\* usable result (the results list is missing, not an array, empty, or holds
\* only entries without a title or a url), search() hands the callback no
\* error and the text block with the "No results found" notice.
C25_EmptyResultSet ==
    (/\ probe.op = "search"
     /\ probe.input.outcome = "ok"
     /\ probe.input.data.kind = "object"
     /\ \/ probe.input.data.results # "list"
        \/ \A i \in 1..Len(probe.input.data.items) :
              \/ probe.input.data.items[i].title = ""
              \/ probe.input.data.items[i].url = "")
        => /\ probe.out.error = "none"
           /\ \E i \in 1..Len(probe.out.results) : probe.out.results[i] = NO_RESULTS

\* A body without a results field, and a results list with one unusable entry.
C25_Witness ==
    /\ probe.op = "search"
    /\ probe.input.outcome = "ok"
    /\ probe.input.data.kind = "object"
    /\ \/ probe.input.data.results = "missing"
       \/ probe.input.data.results = "list" /\ Len(probe.input.data.items) = 1
          /\ probe.input.data.items[1].title = ""
    /\ probe.out.error = "none"

C27_ToolFailureEndsExchange ==
    [][(/\ ~destroyed
        /\ \/ event'.op \in {"search", "transcript"} /\ event'.error # "none"
           \/ /\ event'.op = "response" /\ event'.acted
              /\ event'.tool = "youtube_summary" /\ event'.arg = "invalid")
         => /\ _chatDisplay'.kind = "error" /\ ~_chatDisplay'.settingsButton
            /\ _history' = _history /\ settingsHistory' = settingsHistory
            /\ Len(inflight') <= Len(inflight)
            /\ Len(toolsInFlight') <= Len(toolsInFlight)
            /\ _chatInput' = [text |-> <<>>, reactive |-> TRUE]
            /\ ~_thinkingTimer']_vars

\* The second tool execution of an exchange has failed: the tool-result turn
\* of the first is still in the history.
C27_Witness ==
    /\ ~destroyed
    /\ event.op \in {"search", "transcript"} /\ event.error # "none"
    /\ turns = 1
    /\ _chatDisplay.kind = "error"
    /\ Len(_history) >= 2 /\ _history[Len(_history)].role = "user"

C29_PersistedWhenIdle ==
    (~destroyed /\ Len(inflight) + Len(toolsInFlight) = 0)
        => settingsHistory = _history

\* C29, amended: in every state the persisted history is a prefix of the
\* history in memory, and the turns in memory that are not persisted are
\* User turns (the inputs of exchanges that failed or are under way); so
\* the two are equal whenever the history is empty or ends with an
\* Assistant turn.
C29_PersistedPrefix ==
    /\ IsPrefix(settingsHistory, _history)
    /\ \A i \in (Len(settingsHistory) + 1)..Len(_history) : _history[i].role = "user"
    /\ (_history = <<>> \/ _history[Len(_history)].role = "assistant")
           => settingsHistory = _history

\* Idle after a failed exchange: the user turn is in memory only.
C29_Witness ==
    /\ ~destroyed
    /\ Len(inflight) + Len(toolsInFlight) = 0
    /\ event.op = "response" /\ event.error # "none"
    /\ _chatInput.reactive
    /\ Len(_history) = Len(settingsHistory) + 1

\* C30: in the polling variant, once the request has completed and the poll
\* timers have ticked, no poll timer is left: the number of live poll timers
\* does not grow with the number of requests sent.
C30_PollTimersStop ==
    (probe.op = "polling" /\ probe.out.inflight = 0 /\ probe.out.polled)
        => probe.out.timers = 0

====
